---- MODULE Spec2Model ----
(***************************************************************************)
(* A model of epycom's line-length HFO detector (detect_hfo_ll), of the    *)
(* line-length transform it calls (compute_line_lenght) and of the row     *)
(* loop of the Stockwell transform (compute_stockwell_transform).          *)
(*                                                                         *)
(* Numbers.  Samples are integers.  A line-length value is a sum of        *)
(* absolute differences divided by window_size; the model carries the sum, *)
(* i.e. the value's numerator over the denominator window_size, which is   *)
(* the same for every value of one call.  Mean and standard deviation      *)
(* scale with the values, so every comparison "LL[i] >= det_th" is decided *)
(* exactly as in real arithmetic (floating-point rounding is not           *)
(* modelled).  Fractions (window_overlap, threshold, the elements of a     *)
(* linspace) are records [num, den] with den > 0.                          *)
(* Python indices are 0-based; the sequences here are 1-based, so the      *)
(* Python element x[i] is x[i + 1].                                        *)
(***************************************************************************)
EXTENDS Integers, Sequences, FiniteSets

\* ------------------------------------------------------------ bounds
\* Longest signal handed to detect_hfo_ll.
MaxLen == 9

\* Longest signal handed directly to compute_line_lenght.
MaxLLLen == 8

\* Largest max_freq and largest frequency step f_fs of a Stockwell call.
MaxFreq == 6

MaxStep == 3

\* Sample values of a signal.
Samples == {0, 1}

\* Values of fs: a non-positive one and the default of the signature.
FsValues == {0, 5000}

\* Values of window_overlap: 0, 1/4, 1/2, 3/4 and 1.
Overlaps == {[num |-> n, den |-> 4] : n \in 0..4}

\* Values of threshold (the multiplier of the standard deviation): 0, 1/2, 1.
Thresholds == {[num |-> n, den |-> 2] : n \in 0..2}

\* Marks an element of np.empty(n) that was never assigned.
Empty == -1

\* ------------------------------------------------------------ arithmetic
Abs(x) == IF x < 0 THEN -x ELSE x

Min(a, b) == IF a < b THEN a ELSE b

Max(a, b) == IF a > b THEN a ELSE b

\* floor(a / b) and ceil(a / b) for integers a, b with b # 0.
FloorDiv(a, b) == IF b > 0 THEN a \div b ELSE (-a) \div (-b)

CeilDiv(a, b) == -FloorDiv(-a, b)

\* int(x) of Python for the fraction a / b, b > 0: truncation towards zero.
TruncDiv(a, b) == IF a >= 0 THEN a \div b ELSE -((-a) \div b)

RECURSIVE SumSeq(_)
SumSeq(s) == IF s = <<>> THEN 0 ELSE s[1] + SumSeq(Tail(s))

\* x[start:stop] of Python for a sequence x, with negative indices counted
\* from the end and both ends clamped into 0..len(x).
PySlice(x, start, stop) ==
    LET n == Len(x)
        lo == IF start < 0 THEN Max(n + start, 0) ELSE Min(start, n)
        hi == IF stop < 0 THEN Max(n + stop, 0) ELSE Min(stop, n)
    IN SubSeq(x, lo + 1, hi)

\* ------------------------------------------------------------ compute_line_lenght
\* np.abs(np.subtract(signal[1:], signal[:-1]))
AbsDiff(signal) ==
    [i \in 1..(Len(signal) - 1) |-> Abs(signal[i + 1] - signal[i])]

\* np.convolve(aux, np.ones(w) / float(w)), mode 'full', for non-empty aux
\* and w >= 1: element j (0-based) is the sum of aux[i] over 0 <= j - i < w,
\* divided by w.  The model keeps the sum (the numerator over w).
ConvolveOnes(aux, w) ==
    [j \in 1..(Len(aux) + w - 1) |->
        SumSeq(SubSeq(aux, Max(1, j - w + 1), Min(j, Len(aux))))]

\* The first trimmed element: floor(window_size / 2).
TrimStart(w) == FloorDiv(w, 2)

\* A variant of TrimStop that rounds down like TrimStart.
TrimStopFloor(w) == FloorDiv(w, 2)

\* The number of trimmed trailing elements: ceil(window_size / 2), so the
\* slice is data[start:-stop] (and data[start:0] when stop is 0).
TrimStop(w) == CeilDiv(w, 2)

\* compute_line_lenght(signal, window_size): [ok, data] or the exception
\* raised.  np.ones(w) raises ValueError for w < 0; np.convolve raises
\* ValueError when either argument is empty.
compute_line_lenght(signal, w) ==
    LET aux == AbsDiff(signal)
    IN IF w < 0 \/ w = 0 \/ aux = <<>>
       THEN [ok |-> FALSE, err |-> "ValueError", data |-> <<>>]
       ELSE [ok |-> TRUE, err |-> "",
             data |-> PySlice(ConvolveOnes(aux, w), TrimStart(w), -TrimStop(w))]

\* ------------------------------------------------------------ threshold
RECURSIVE SumSq(_)
SumSq(s) == IF s = <<>> THEN 0 ELSE s[1] * s[1] + SumSq(Tail(s))

\* th_std of epycom/utils/thresholds.py, taken from its specification:
\* th_std(LL, k) = mean(LL) + k * std(LL), with the population standard
\* deviation.  For n = len(LL), S = sum(LL), Q = sum(LL^2) and k = kn / kd
\* the value is (kd * S + kn * sqrt(n * Q - S * S)) / (kd * n); the record
\* holds the rational part, the factor of the root, the radicand and the
\* denominator.
th_std(LL, k) ==
    LET n == Len(LL)
        S == SumSeq(LL)
    IN [rat |-> k.den * S, irr |-> k.num, rad |-> n * SumSq(LL) - S * S,
        den |-> k.den * n]

\* A variant of AboveTh with the comparison reversed: x <= th.
AboveTh_reversed(x, th) ==
    LET a == x * th.den - th.rat
    IN IF th.irr >= 0
       THEN a <= 0 \/ a * a <= th.irr * th.irr * th.rad
       ELSE a <= 0 /\ a * a >= th.irr * th.irr * th.rad

\* x >= th for an integer x and a threshold record th (th.den > 0):
\* x * den - rat >= irr * sqrt(rad), decided by signs and squares.
AboveTh(x, th) ==
    LET a == x * th.den - th.rat
    IN IF th.irr >= 0
       THEN a >= 0 /\ a * a >= th.irr * th.irr * th.rad
       ELSE a >= 0 \/ a * a <= th.irr * th.irr * th.rad

\* ------------------------------------------------------------ the scan
\* A variant of RunEnd with an "if" for the "while": one step, no merging.
RunEnd_single(LL, th, idx) == idx + 1

\* The inner loop: from idx (0-based), advance while idx < len(LL) and
\* LL[idx] >= det_th.
RECURSIVE RunEnd(_, _, _)
RunEnd(LL, th, idx) ==
    IF idx < Len(LL) /\ AboveTh(LL[idx + 1], th)
    THEN RunEnd(LL, th, idx + 1)
    ELSE idx

\* Variants of EventStop: without the clamp to len(sig), and one window late.
EventStop_noclamp(idx, inc, w, n) == idx * inc + w

EventStop_late(idx, inc, w, n) == Min((idx + 1) * inc + w, n)

\* event_stop for the index idx the inner loop stopped at, clamped to
\* len(sig).
EventStop(idx, inc, w, n) ==
    LET event_stop == idx * inc + w
    IN IF event_stop > n THEN n ELSE event_stop

\* One iteration of the outer loop at idx < len(LL): the next idx and output.
ScanIter(LL, th, inc, w, n, idx, out) ==
    IF AboveTh(LL[idx + 1], th)
    THEN LET event_start == idx * inc
             stopped == RunEnd(LL, th, idx)
         IN [idx |-> stopped + 1,
             out |-> Append(out, <<event_start, EventStop(stopped, inc, w, n)>>)]
    ELSE [idx |-> idx + 1, out |-> out]

\* The whole scan from idx: the list it returns.
RECURSIVE ScanFrom(_, _, _, _, _, _, _)
ScanFrom(LL, th, inc, w, n, idx, out) ==
    IF idx < Len(LL)
    THEN LET r == ScanIter(LL, th, inc, w, n, idx, out)
         IN ScanFrom(LL, th, inc, w, n, r.idx, r.out)
    ELSE out

\* ------------------------------------------------------------ Stockwell helpers
\* Element k (0-based) of np.linspace(start, stop, num), num >= 1, as a
\* fraction: start + k * (stop - start) / (num - 1); [start] when num is 1.
Linspace(start, stop, num, k) ==
    IF num = 1 THEN [num |-> start, den |-> 1]
    ELSE [num |-> start * (num - 1) + k * (stop - start), den |-> num - 1]

\* spe_nelements, the number of rows of st: ceil((max - min + 1) / f_fs).
SpeNelements(lo, hi, step) == CeilDiv(hi - lo + 1, step)

\* The row the loop writes for the linspace element i:
\* int((i - 1) / f_fs + 1).
RowOf(i, step) == TruncDiv(i.num - i.den + step * i.den, step * i.den)

\* The first index of the slice of vector_fft taken for i: int(min_freq + i).
BinOf(lo, i) == TruncDiv(lo * i.den + i.num, i.den)

\* The frequency bin the returned axis f gives row r (0-based), before its
\* scaling by 1 / (samp_rate * len(signal)): min_freq + r * f_fs.
FreqAxis(lo, step, r) == lo + r * step

\* A row of st: as allocated (zeros), the broadcast mean (the min_freq = 0
\* case), or the inverse transform of the slice of vector_fft starting at bin
\* times the Gaussian window evaluated at frequency g.
ZeroRow == [kind |-> "zeros", bin |-> 0, g |-> [num |-> 0, den |-> 1]]

MeanRow == [kind |-> "mean", bin |-> 0, g |-> [num |-> 0, den |-> 1]]

BinRow(bin, g) == [kind |-> "bin", bin |-> bin, g |-> g]

\* ------------------------------------------------------------ state
VARIABLES
    sig,              \* the signal
    fs,               \* the sampling frequency (never read by detect_hfo_ll)
    threshold,        \* the multiplier of the standard deviation
    window_size,
    window_overlap,
    pc,               \* the position in the running function
    err,              \* the exception raised, "" when none
    window_increment,
    n_windows,
    win_start,
    win_stop,
    LL,               \* the feature series
    LL_i,
    det_th,
    LL_idx,
    output,
    line_length,      \* the array a direct compute_line_lenght call returns
    min_freq,
    max_freq,
    f_fs,
    st,               \* the rows of the Stockwell matrix
    st_k              \* the position in the linspace of the row loop

detect_vars == <<fs, threshold, window_overlap, window_increment, n_windows,
                 win_start, win_stop, LL, LL_i, det_th, LL_idx, output>>

st_vars == <<min_freq, max_freq, f_fs, st, st_k>>

vars == <<sig, window_size, pc, err, detect_vars, line_length, st_vars>>

params == <<sig, fs, threshold, window_size, window_overlap>>

NoTh == [rat |-> 0, irr |-> 0, rad |-> 0, den |-> 1]

\* Signals of length 1..n.  detect_hfo_ll reads a signal only through the
\* absolute differences of neighbouring samples, which a signal shares with
\* its mirror image, so its signals start with the sample 0.
SignalsUpTo(n) == UNION {[1..m -> Samples] : m \in 1..n}

DetectSignals == {s \in SignalsUpTo(MaxLen) : s[1] = 0}

DetectIdle ==
    /\ fs = 0
    /\ threshold = [num |-> 0, den |-> 1]
    /\ window_overlap = [num |-> 0, den |-> 1]
    /\ window_increment = 0
    /\ n_windows = 0
    /\ win_start = 0
    /\ win_stop = 0
    /\ LL = <<>>
    /\ LL_i = 0
    /\ det_th = NoTh
    /\ LL_idx = 0
    /\ output = <<>>

StockwellIdle ==
    /\ min_freq = 0
    /\ max_freq = 0
    /\ f_fs = 0
    /\ st = <<>>
    /\ st_k = 0

\* ------------------------------------------------------------ detect_hfo_ll
\* A call detect_hfo_ll(sig, fs, threshold, window_size, window_overlap).
Init ==
    /\ sig \in DetectSignals
    /\ fs \in FsValues
    /\ threshold \in Thresholds
    /\ window_size \in (-1)..Len(sig)
    /\ window_overlap \in Overlaps
    /\ pc = "start"
    /\ err = ""
    /\ window_increment = 0
    /\ n_windows = 0
    /\ win_start = 0
    /\ win_stop = 0
    /\ LL = <<>>
    /\ LL_i = 0
    /\ det_th = NoTh
    /\ LL_idx = 0
    /\ output = <<>>
    /\ line_length = <<>>
    /\ StockwellIdle

\* int(np.ceil(window_size * window_overlap))
WindowIncrement(w, ov) == CeilDiv(w * ov.num, ov.den)

\* int(np.ceil((len(sig) - window_size) / window_increment)) + 1
NWindows(n, w, inc) == CeilDiv(n - w, inc) + 1

\* Lines 46-56: the window schedule and the allocation of LL.  The division
\* by window_increment raises ZeroDivisionError; np.empty raises ValueError
\* for a negative length.
Schedule ==
    /\ pc = "start"
    /\ LET inc == WindowIncrement(window_size, window_overlap)
           n == IF inc = 0 THEN 0 ELSE NWindows(Len(sig), window_size, inc)
       IN /\ window_increment' = inc
          /\ output' = <<>>
          /\ win_start' = 0
          /\ win_stop' = window_size
          /\ IF inc = 0
             THEN /\ pc' = "raised"
                  /\ err' = "ZeroDivisionError"
                  /\ UNCHANGED <<n_windows, LL, LL_i>>
             ELSE /\ n_windows' = n
                  /\ IF n < 0
                     THEN /\ pc' = "raised"
                          /\ err' = "ValueError"
                          /\ UNCHANGED <<LL, LL_i>>
                     ELSE /\ LL' = [i \in 1..n |-> Empty]
                          /\ LL_i' = 0
                          /\ pc' = "windows"
                          /\ err' = ""
    /\ UNCHANGED <<params, det_th, LL_idx, line_length, st_vars>>

\* Lines 57-70: one pass of the windowing loop (or its exit).  The right-hand
\* side compute_line_lenght(...)[0] is evaluated before LL[LL_i] is stored:
\* it raises what compute_line_lenght raises, or IndexError on an empty
\* result; the store raises IndexError when LL_i is not an index of LL.
WindowStep ==
    /\ pc = "windows"
    /\ IF ~(win_start < Len(sig))
       THEN /\ pc' = "threshold"
            /\ UNCHANGED <<err, win_start, win_stop, LL, LL_i>>
       ELSE LET stop == IF win_stop > Len(sig) THEN Len(sig) ELSE win_stop
                r == compute_line_lenght(PySlice(sig, win_start, stop),
                                         window_size)
            IN IF ~r.ok
               THEN /\ pc' = "raised"
                    /\ err' = r.err
                    /\ win_stop' = stop
                    /\ UNCHANGED <<win_start, LL, LL_i>>
               ELSE IF r.data = <<>> \/ LL_i >= Len(LL)
               THEN /\ pc' = "raised"
                    /\ err' = "IndexError"
                    /\ win_stop' = stop
                    /\ UNCHANGED <<win_start, LL, LL_i>>
               ELSE /\ LL' = [LL EXCEPT ![LL_i + 1] = r.data[1]]
                    /\ err' = ""
                    /\ IF stop = Len(sig)
                       THEN /\ pc' = "threshold"
                            /\ win_stop' = stop
                            /\ UNCHANGED <<win_start, LL_i>>
                       ELSE /\ pc' = "windows"
                            /\ win_start' = win_start + window_increment
                            /\ win_stop' = stop + window_increment
                            /\ LL_i' = LL_i + 1
    /\ UNCHANGED <<params, window_increment, n_windows, det_th, LL_idx, output,
                   line_length, st_vars>>

\* Line 73: the threshold.  An element of LL the loop never assigned holds
\* whatever np.empty left there: any value.
Threshold ==
    /\ pc = "threshold"
    /\ \E fill \in [{i \in 1..Len(LL) : LL[i] = Empty} -> Samples] :
          LET full == [i \in 1..Len(LL) |->
                          IF LL[i] = Empty THEN fill[i] ELSE LL[i]]
          IN /\ LL' = full
             /\ det_th' = th_std(full, threshold)
    /\ LL_idx' = 0
    /\ pc' = "scan"
    /\ UNCHANGED <<params, err, window_increment, n_windows, win_start,
                   win_stop, LL_i, output, line_length, st_vars>>

\* Lines 76-96: one pass of the outer detection loop, or the return.
ScanStep ==
    /\ pc = "scan"
    /\ IF LL_idx < Len(LL)
       THEN LET r == ScanIter(LL, det_th, window_increment, window_size,
                              Len(sig), LL_idx, output)
            IN /\ LL_idx' = r.idx
               /\ output' = r.out
               /\ pc' = "scan"
       ELSE /\ pc' = "done"
            /\ UNCHANGED <<LL_idx, output>>
    /\ UNCHANGED <<params, err, window_increment, n_windows, win_start,
                   win_stop, LL, LL_i, det_th, line_length, st_vars>>

Next == Schedule \/ WindowStep \/ Threshold \/ ScanStep

Spec == Init /\ [][Next]_vars

\* ------------------------------------------------------------ a compute_line_lenght call
\* A call compute_line_lenght(sig, window_size).
InitLineLength ==
    /\ sig \in SignalsUpTo(MaxLLLen)
    /\ window_size \in 0..(Len(sig) + 1)
    /\ pc = "call"
    /\ err = ""
    /\ line_length = <<>>
    /\ DetectIdle
    /\ StockwellIdle

LineLengthCall ==
    /\ pc = "call"
    /\ LET r == compute_line_lenght(sig, window_size)
       IN /\ pc' = IF r.ok THEN "returned" ELSE "raised"
          /\ err' = r.err
          /\ line_length' = r.data
    /\ UNCHANGED <<sig, window_size, detect_vars, st_vars>>

NextLineLength == LineLengthCall

SpecLineLength == InitLineLength /\ [][NextLineLength]_vars

\* ------------------------------------------------------------ compute_stockwell_transform
\* A call compute_stockwell_transform(sig, fs, min_freq, max_freq, f_fs) with
\* 0 <= min_freq < max_freq and a signal long enough for every slice
\* vector_fft[int(min_freq + i):int(min_freq + i + n)] to have n elements.
InitStockwell ==
    /\ sig = [i \in 1..(MaxFreq + MaxStep) |-> 0]
    /\ min_freq \in 0..(MaxFreq - 1)
    /\ max_freq \in (min_freq + 1)..MaxFreq
    /\ f_fs \in 1..MaxStep
    /\ st = <<>>
    /\ st_k = 0
    /\ pc = "st_start"
    /\ err = ""
    /\ window_size = 0
    /\ line_length = <<>>
    /\ DetectIdle

\* Lines 182-202: the matrix is allocated as zeros and row 0 is filled.
StockwellSetup ==
    /\ pc = "st_start"
    /\ LET rows == SpeNelements(min_freq, max_freq, f_fs)
           row0 == IF min_freq = 0 THEN MeanRow
                   ELSE BinRow(min_freq, [num |-> min_freq, den |-> 1])
       IN st' = [r \in 1..rows |-> IF r = 1 THEN row0 ELSE ZeroRow]
    /\ st_k' = 0
    /\ pc' = "st_rows"
    /\ UNCHANGED <<sig, window_size, err, detect_vars, line_length, min_freq,
                   max_freq, f_fs>>

\* Lines 204-210: one pass of the row loop over
\* np.linspace(f_fs, max_freq - min_freq, max_freq - min_freq), or the return.
\* The slice of vector_fft (2n elements) is multiplied by an n-element
\* window: a slice of another length than n or 1 raises ValueError; then the
\* store raises IndexError for a row that st does not have.
StockwellRow ==
    /\ pc = "st_rows"
    /\ LET d == max_freq - min_freq
           n == Len(sig)
       IN IF st_k >= d
          THEN /\ pc' = "st_done"
               /\ UNCHANGED <<err, st, st_k>>
          ELSE LET i == Linspace(f_fs, d, d, st_k)
                   row == RowOf(i, f_fs)
                   a == BinOf(min_freq, i)
                   b == BinOf(min_freq + n, i)
                   len == Max(0, Min(b, 2 * n) - Min(a, 2 * n))
               IN IF len # n /\ len # 1
                  THEN /\ pc' = "raised"
                       /\ err' = "ValueError"
                       /\ UNCHANGED <<st, st_k>>
                  ELSE IF row >= Len(st)
                  THEN /\ pc' = "raised"
                       /\ err' = "IndexError"
                       /\ UNCHANGED <<st, st_k>>
                  ELSE /\ st' = [st EXCEPT ![row + 1] =
                                    BinRow(a, [num |-> min_freq * i.den + i.num,
                                               den |-> i.den])]
                       /\ st_k' = st_k + 1
                       /\ pc' = "st_rows"
                       /\ err' = ""
    /\ UNCHANGED <<sig, window_size, detect_vars, line_length, min_freq,
                   max_freq, f_fs>>

NextStockwell == StockwellSetup \/ StockwellRow

SpecStockwell == InitStockwell /\ [][NextStockwell]_vars

\* ------------------------------------------------------------ properties
FracLE(a, b) == a.num * b.den <= b.num * a.den

FracLT(a, b) == a.num * b.den < b.num * a.den

\* window_overlap lies strictly between 0 and 1.
OverlapInside == 0 < window_overlap.num /\ window_overlap.num < window_overlap.den

\* The list the scan returns for the computed feature series under the
\* multiplier k.
ScanWith(k) ==
    ScanFrom(LL, th_std(LL, k), window_increment, window_size, Len(sig), 0, <<>>)

\* Event e lies inside event f.
Inside(e, f) == f[1] <= e[1] /\ e[2] <= f[2]

\* Feature index i (0-based) is at or above the threshold of the call.
Above(i) == AboveTh(LL[i + 1], det_th)

\* The first indices of the maximal runs of indices at or above the threshold,
\* and the index just after the run that starts at i0.
RunStarts == {i \in 0..(Len(LL) - 1) : Above(i) /\ (i = 0 \/ ~Above(i - 1))}

RunStop(i0) ==
    CHOOSE j \in (i0 + 1)..Len(LL) :
        /\ \A m \in i0..(j - 1) : Above(m)
        /\ j = Len(LL) \/ ~Above(j)

\* C1: when 1 <= window_increment <= window_size <= len(sig), every event the
\* scan has appended satisfies 0 <= event_start < event_stop <= len(sig).
C1_EventsInsideSignal ==
    (/\ pc \in {"scan", "done"}
     /\ 1 <= window_increment
     /\ window_increment <= window_size
     /\ window_size <= Len(sig))
    => \A i \in 1..Len(output) :
          /\ 0 <= output[i][1]
          /\ output[i][1] < output[i][2]
          /\ output[i][2] <= Len(sig)

\* A returned list of two or more events whose last run reached the end of
\* the feature series, so that its stop was clamped to the signal length.
C1_ClampedEventReturned ==
    /\ pc = "done"
    /\ Len(output) >= 2
    /\ LL_idx = Len(LL) + 1
    /\ Len(LL) * window_increment + window_size > Len(sig)
    /\ output[Len(output)][2] = Len(sig)

\* C2 as stated: for window_overlap in (0, 1) the returned events are sorted
\* by event_start and consecutive events do not overlap:
\* event_stop[i] <= event_start[i + 1].
C2_EventsDisjoint ==
    (pc = "done" /\ OverlapInside)
    => \A i \in 1..(Len(output) - 1) :
          /\ output[i][1] <= output[i + 1][1]
          /\ output[i][2] <= output[i + 1][1]

\* C2 as amended: for window_overlap in (0, 1) the events are strictly
\* ascending by event_start, and consecutive events overlap by at most
\* window_size - window_increment samples:
\* event_stop[i] <= event_start[i + 1] + window_size - window_increment.
C2_OverlapBounded ==
    (pc \in {"scan", "done"} /\ OverlapInside)
    => \A i \in 1..(Len(output) - 1) :
          /\ output[i][1] < output[i + 1][1]
          /\ output[i][2] <= output[i + 1][1] + window_size - window_increment

\* A returned list in which an event stops after the next one starts.
C2_OverlappingEventsReturned ==
    /\ pc = "done"
    /\ OverlapInside
    /\ \E i \in 1..(Len(output) - 1) : output[i][2] > output[i + 1][1]

\* C3 as stated: for the computed feature series, a multiplier k2 >= threshold
\* never gives more events than the call's own multiplier.
C3_EventCountMonotone ==
    pc = "done"
    => \A k2 \in Thresholds :
          FracLE(threshold, k2) => Len(ScanWith(k2)) <= Len(output)

\* C3 as amended: for a multiplier k2 >= threshold, every event of the scan
\* under k2 lies inside an event of the scan under threshold.
C3_EventsShrink ==
    pc = "done"
    => \A k2 \in Thresholds :
          FracLE(threshold, k2)
          => LET hi == ScanWith(k2)
             IN \A i \in 1..Len(hi) :
                   \E j \in 1..Len(output) : Inside(hi[i], output[j])

\* A returned list that a larger multiplier changes without emptying it.
C3_LargerMultiplierChangesEvents ==
    /\ pc = "done"
    /\ \E k2 \in Thresholds :
          /\ FracLT(threshold, k2)
          /\ ScanWith(k2) # <<>>
          /\ ScanWith(k2) # output

\* C4: when every feature value is the same (as for a constant signal) and the
\* multiplier is positive, the returned list is empty.
C4_FlatSeriesNoEvents ==
    (/\ pc = "done"
     /\ threshold.num > 0
     /\ \A i, j \in 1..Len(LL) : LL[i] = LL[j])
    => output = <<>>

\* C6: for window_size >= 1 and window_overlap in [0, 1) the computed
\* window_increment is >= 1, and it is window_size at window_overlap = 0.
C6_IncrementPositive ==
    (/\ pc # "start"
     /\ window_size >= 1
     /\ 0 <= window_overlap.num
     /\ window_overlap.num < window_overlap.den)
    => /\ window_increment >= 1
       /\ window_overlap.num = 0 => window_increment = window_size

\* C7: a call with window_size <= 0, fs <= 0 or window_overlap outside [0, 1)
\* scores no window and returns no list.
C7_BadConfigurationRejected ==
    (\/ window_size <= 0
     \/ fs <= 0
     \/ window_overlap.num < 0
     \/ window_overlap.num >= window_overlap.den)
    => /\ pc # "done"
       /\ \A i \in 1..Len(LL) : LL[i] = Empty

\* C8: for 1 <= window_size <= len(sig) and window_increment >= 1 the
\* windowing loop ends without an exception, having assigned every element
\* of the n_windows-long feature series.
C8_EveryWindowScored ==
    (/\ pc \notin {"start", "windows"}
     /\ 1 <= window_size
     /\ window_size <= Len(sig)
     /\ window_increment >= 1)
    => /\ pc # "raised"
       /\ Len(LL) = NWindows(Len(sig), window_size, window_increment)
       /\ \A i \in 1..Len(LL) : LL[i] # Empty

\* C9: the returned list holds exactly one event per maximal run of feature
\* indices at or above the threshold, in run order; the event of the run
\* i0..i1-1 is (i0 * window_increment,
\* min(i1 * window_increment + window_size, len(sig))).
C9_OneEventPerRun ==
    pc = "done"
    => /\ Len(output) = Cardinality(RunStarts)
       /\ \A m \in 1..Len(output) :
             \E i0 \in RunStarts :
                /\ Cardinality({j \in RunStarts : j < i0}) = m - 1
                /\ output[m] =
                      <<i0 * window_increment,
                        Min(RunStop(i0) * window_increment + window_size,
                            Len(sig))>>

\* A returned list of two or more events, one of them merged from two or
\* more adjacent windows at or above the threshold.
C9_MergedRunReturned ==
    /\ pc = "done"
    /\ Len(output) >= 2
    /\ \E i0 \in RunStarts : RunStop(i0) >= i0 + 2

\* C5 as stated: for 1 <= window_size <= len(sig) the array the call returns
\* has exactly len(sig) - window_size elements.
C5_LengthIsNMinusW ==
    (pc = "returned" /\ 1 <= window_size /\ window_size <= Len(sig))
    => Len(line_length) = Len(sig) - window_size

\* C5 as amended: for 1 <= window_size <= len(sig) and len(sig) >= 2 the call
\* returns an array of exactly len(sig) - 2 elements; for len(sig) = 1 it
\* raises ValueError (the array of differences is empty).
C5_LengthIsNMinusTwo ==
    (pc # "call" /\ 1 <= window_size /\ window_size <= Len(sig))
    => IF Len(sig) >= 2
       THEN pc = "returned" /\ Len(line_length) = Len(sig) - 2
       ELSE pc = "raised" /\ err = "ValueError"

\* The call on [0,1,0,1,0,1,0,1] with window_size = 2 has returned 6 elements.
C5_ScenarioThreeReturned ==
    /\ pc = "returned"
    /\ sig = <<0, 1, 0, 1, 0, 1, 0, 1>>
    /\ window_size = 2
    /\ Len(line_length) = 6

\* Row r (0-based) of st was computed from the bin the frequency axis gives
\* it, with the Gaussian window evaluated at that bin (row 0 of a call with
\* min_freq = 0 holds the mean).
RowMatchesAxis(r) ==
    LET bin == FreqAxis(min_freq, f_fs, r)
        row == st[r + 1]
    IN IF r = 0 /\ min_freq = 0
       THEN row = MeanRow
       ELSE /\ row.kind = "bin"
            /\ row.bin = bin
            /\ row.g.num = bin * row.g.den

\* C10: the row loop ends without addressing a row outside the matrix, and
\* every row was computed from the bin of the frequency axis, with the
\* Gaussian window at that frequency.
C10_RowsMatchFrequencyAxis ==
    pc \in {"st_done", "raised"}
    => /\ pc = "st_done"
       /\ Len(st) = SpeNelements(min_freq, max_freq, f_fs)
       /\ \A r \in 0..(Len(st) - 1) : RowMatchesAxis(r)

====
